---- MODULE Spec2Model ----
(***************************************************************************)
(* Device online-state tracking of open-balena-api                         *)
(* (src/src/lib/device-online-state.ts).                                   *)
(*                                                                         *)
(* A heartbeat (captureEventFor) marks a device Online in the system of    *)
(* record and (re)schedules a delayed queue message that will mark it      *)
(* Timeout; the consumer loop (consume) applies expired messages and, for  *)
(* Timeout, schedules the Offline follow-up.  The delay store (Redis key   *)
(* device-online-state:<uuid>) remembers the pending message id.           *)
(*                                                                         *)
(* Timing: the clock counts whole seconds.  Timers are kept relative       *)
(* (seconds left until a message is visible, seconds left until a record   *)
(* expires).  Store, queue and system-of-record calls take milliseconds,   *)
(* so the clock ticks only between handlers (Quiescent); their steps still *)
(* interleave freely within one instant.  The consumer loop polls at least *)
(* once a second, so it receives a message at most one second late.       *)
(***************************************************************************)
EXTENDS Integers, FiniteSets, Sequences, TLC

\* ---------------------------------------------------------------- values

Unknown == -2
Timeout == -1
Offline == 0
Online == 1
DeviceOnlineStates == {Unknown, Timeout, Offline, Online}

\* the test's POLL_SEC * 1000
DEFAULT_SUPERVISOR_POLL_INTERVAL == 5000
RSMQ_READ_TIMEOUT == 30
RECORD_EXPIRY_EXTRA == 5
API_HEARTBEAT_STATE_TIMEOUT_SECONDS == 2

\* ---------------------------------------------------------------- bounds

\* the timeoutSeconds every heartbeat passes to captureEventFor
TimeoutSeconds == 3
\* heartbeats started in one run
MaxHeartbeats == 3
\* captureEventFor calls that may be in flight at once
NumCalls == 2
\* scheduling chains started by the consumer that may be in flight at once
NumJobs == 2
\* how many seconds of lateness the queue's visibility order remembers
OverdueCap == 2
\* fault injections (outages begun) in one run
MaxFaults == 2

Agents == {"dev1", "dev2"}
NoAgent == "none"
HbIds == 1..NumCalls
JobIds == (NumCalls + 1)..(NumCalls + NumJobs)
ProcIds == HbIds \cup JobIds
\* the poll-interval values a config variable may hold: multiples of 2500 ms
PollSteps == 3
PollValues == {2500 * k : k \in 0..PollSteps}
\* worker processes, each with a DeviceOnlineStateManager of its own; the
\* consumer loop of worker 1 is cons
NumWorkers == 2
PeerIds == 2..NumWorkers
AgeCap == TimeoutSeconds + API_HEARTBEAT_STATE_TIMEOUT_SECONDS + 1

Max(a, b) == IF a >= b THEN a ELSE b
Min(a, b) == IF a <= b THEN a ELSE b

VARIABLES
    sor,        \* system of record: device.api_heartbeat_state per agent
    store,      \* delay store: the record under device-online-state:<uuid>
    queue,      \* the rsmq queue "expired": the messages sent and not deleted
    nextId,     \* the next message id rsmq hands out
    proc,       \* captureEventFor calls and consumer-started scheduling chains
    cons,       \* the consumer loop
    sorUp,      \* the system of record accepts writes
    redisUp,    \* Redis (delay store and queue) is reachable
    env,        \* the run's environment: heartbeats and outages still to come,
                \* and whether heartbeats of one agent may overlap
    obs,        \* observation of the run, per agent (history only)
    peers,      \* the consumer loops of the other worker processes
    poll        \* a getPollIntervalForDevice call: its inputs and its position

vars == <<sor, store, queue, nextId, proc, cons, sorUp, redisUp, env, obs, peers, poll>>

\* json: the stored text is one that JSON.parse accepts
\* no config variable (NoValue), and a call that was never made
NoValue == -1
PollIdle ==
    [pc |-> "off", uuid |-> NoAgent, dcv |-> [d \in Agents |-> NoValue],
     acv |-> [d \in Agents |-> NoValue], v |-> NoValue, result |-> NoValue]
NoRec == [id |-> 0, currentState |-> Unknown, ttl |-> 0, json |-> TRUE]
FreeProc ==
    [pc |-> "free", uuid |-> NoAgent, cur |-> Unknown, nxt |-> Unknown,
     delay |-> 0, old |-> 0, new |-> 0, wfail |-> FALSE, resc |-> FALSE,
     clean |-> FALSE, src |-> 0, read |-> "none"]
\* reported: the last finished iteration of the loop ended in captureException;
\* result: what updateDeviceModel resolved with for the message in hand
IdleCons ==
    [pc |-> "recv", id |-> 0, uuid |-> NoAgent, nextState |-> Unknown, job |-> 0,
     reported |-> FALSE, result |-> TRUE]
Obs0 ==
    [started |-> 0, done |-> 0, rejected |-> 0, since |-> 0, gapOK |-> TRUE,
     hbW |-> 0, toW |-> 0, offW |-> 0, toW0 |-> 0, offW0 |-> 0,
     sinceTo |-> 0, rescued |-> FALSE, applied |-> {}, cleanDone |-> FALSE,
     overlapped |-> FALSE, resumed |-> FALSE, unscheduled |-> {},
     failedAt |-> "none"]

\* ------------------------------------------------ getPollIntervalForDevice

\* (a first query whose $filter names the device)
DeviceConfigRowsOfDevice(dcv, uuid) == {d \in {uuid} : dcv[d] # NoValue}

\* the rows the first query returns: resource device_config_variable with
\* $filter on the name only; the uuid appears in $expand: {device: {$filter}},
\* which narrows the expanded device of each row, not the rows
DeviceConfigRows(dcv, uuid) == {d \in Agents : dcv[d] # NoValue}

\* .then(([pollInterval]) => ...) of the first query: the first row, in an
\* order the query does not fix, or else the second query
PollDeviceLevel ==
    /\ poll.pc = "device"
    /\ LET rows == DeviceConfigRows(poll.dcv, poll.uuid) IN
       IF rows # {}
       THEN \E d \in rows : poll' = [poll EXCEPT !.pc = "max", !.v = poll.dcv[d]]
       ELSE poll' = [poll EXCEPT !.pc = "app"]
    /\ UNCHANGED <<sor, store, queue, nextId, proc, cons, sorUp, redisUp, env, obs, peers>>

\* the second query: application_config_variable of the application that owns
\* the device with this uuid, $top: 1; else DEFAULT_SUPERVISOR_POLL_INTERVAL
PollAppLevel ==
    /\ poll.pc = "app"
    /\ poll' = [poll EXCEPT !.pc = "max",
                            !.v = IF poll.acv[poll.uuid] # NoValue THEN poll.acv[poll.uuid]
                                  ELSE DEFAULT_SUPERVISOR_POLL_INTERVAL]
    /\ UNCHANGED <<sor, store, queue, nextId, proc, cons, sorUp, redisUp, env, obs, peers>>

\* .then(pollInterval => Math.max(pollInterval, DEFAULT_SUPERVISOR_POLL_INTERVAL))
PollMax ==
    /\ poll.pc = "max"
    /\ poll' = [poll EXCEPT !.pc = "done",
                            !.result = Max(poll.v, DEFAULT_SUPERVISOR_POLL_INTERVAL)]
    /\ UNCHANGED <<sor, store, queue, nextId, proc, cons, sorUp, redisUp, env, obs, peers>>

\* ------------------------------------------------------- system of record

\* (a PATCH whose filter leaves out the uuid)
UpdateDeviceModelAllDevices(s, uuid, newState) ==
    IF sorUp THEN [a \in Agents |-> newState] ELSE s

\* updateDeviceModel: PATCH device SET api_heartbeat_state = newState
\* WHERE uuid = uuid AND NOT api_heartbeat_state = newState; a failure is
\* reported and turned into the result false.
UpdateDeviceModel(s, uuid, newState) ==
    IF sorUp /\ s[uuid] # newState THEN [s EXCEPT ![uuid] = newState] ELSE s

\* ------------------------------------------------------------- the queue

Visible(m) == m.vis <= 0

\* rsmq: the message received is the visible one that became visible first
Oldest(q) == {m \in q : Visible(m) /\ \A n \in q : Visible(n) => m.vis <= n.vis}

\* (a cancellation that removes nothing)
DeleteMessageKeepsAll(q, id) == q

DeleteMessage(q, id) == {m \in q : m.id # id}

\* json: the payload is one that JSON.parse accepts
Message(id, uuid, nextState, delay, json) ==
    [id |-> id, uuid |-> uuid, nextState |-> nextState, vis |-> delay, json |-> json]

SendMessage(q, id, uuid, nextState, delay) ==
    q \cup {Message(id, uuid, nextState, delay, TRUE)}

\* ----------------------------------------------------------------- Init

InitCommon ==
    /\ sor = [a \in Agents |-> Unknown]
    /\ store = [a \in Agents |-> NoRec]
    /\ queue = {}
    /\ nextId = 1
    /\ proc = [p \in ProcIds |-> FreeProc]
    /\ cons = IdleCons
    /\ sorUp = TRUE
    /\ redisUp = TRUE
    /\ obs = [a \in Agents |-> Obs0]
    /\ peers = [w \in PeerIds |-> [IdleCons EXCEPT !.pc = "off"]]
    /\ poll = PollIdle

\* agents: the devices that send heartbeats in this run;
\* qstate: what rsmq.createQueueAsync meets: no queue yet ("none"), the queue
\* of an earlier start or another worker ("exists"), or anything that makes
\* it fail otherwise ("broken")
Env(overlap, hbLeft, faultsLeft) ==
    [overlap |-> overlap, hbLeft |-> hbLeft, faultsLeft |-> faultsLeft,
     qstate |-> "exists", agents |-> {"dev1"}]

Init == InitCommon /\ env = Env(FALSE, MaxHeartbeats, 0)

\* ------------------------------------------------------------ heartbeats

InFlight(a) == {p \in HbIds : proc[p].pc # "free" /\ proc[p].uuid = a}
FreeSlots(S) == {p \in S : proc[p].pc = "free"}
LowestFree(S) == CHOOSE p \in FreeSlots(S) : \A r \in FreeSlots(S) : p <= r

\* a captureEventFor call or a scheduling chain ends (resolved or rejected)
Finish(p, ok) ==
    /\ proc' = [proc EXCEPT ![p] = FreeProc]
    /\ obs' = IF p \in HbIds
              THEN [obs EXCEPT ![proc[p].uuid] =
                      [@ EXCEPT !.done = @ + (IF ok THEN 1 ELSE 0),
                                !.rejected = @ + (IF ok THEN 0 ELSE 1),
                                !.cleanDone = @ \/ (ok /\ proc[p].clean),
                                !.failedAt = IF ok THEN @ ELSE proc[p].pc,
                                !.toW0 = obs[proc[p].uuid].toW,
                                !.offW0 = obs[proc[p].uuid].offW]]
              ELSE IF ok THEN obs
              ELSE [obs EXCEPT ![proc[p].uuid] =
                      [@ EXCEPT !.unscheduled = @ \cup {proc[p].src},
                                !.failedAt = proc[p].pc]]

\* (history) the heartbeat arrives while the persisted state is Timeout and the
\* consumer has not received the agent's Offline message
ArrivesInTimeout(a) ==
    /\ sor[a] = Timeout
    /\ ~(cons.pc # "recv" /\ cons.uuid = a /\ cons.nextState = Offline)

\* the request layer calls captureEventFor(uuid, timeoutSeconds)
CaptureEventFor(a) ==
    /\ env.hbLeft > 0
    /\ a \in env.agents
    /\ cons.pc # "create"
    /\ FreeSlots(HbIds) # {}
    /\ ~env.overlap => InFlight(a) = {}
    /\ LET p == LowestFree(HbIds) IN
       proc' = [proc EXCEPT ![p] =
                  [FreeProc EXCEPT !.pc = "hbGet", !.uuid = a, !.cur = Online,
                                   !.nxt = Timeout, !.delay = TimeoutSeconds,
                                   !.resc = ArrivesInTimeout(a), !.clean = sorUp]]
    /\ obs' = [obs EXCEPT ![a] =
                  [@ EXCEPT !.started = @ + 1, !.since = 0,
                            !.rescued = ArrivesInTimeout(a),
                            !.overlapped = @ \/ InFlight(a) # {},
                            !.resumed = \/ sor[a] \in {Timeout, Offline}
                                        \/ (@ /\ obs[a].since < TimeoutSeconds),
                            !.gapOK = obs[a].gapOK /\ (obs[a].started = 0 \/ obs[a].since < TimeoutSeconds)]]
    /\ env' = [env EXCEPT !.hbLeft = @ - 1]
    /\ UNCHANGED <<poll, peers, sor, store, queue, nextId, cons, sorUp, redisUp>>

\* (a decision that looks only at whether a record exists)
SetDeviceOnlineIfMissing(value) == value = NoRec

\* (a decision that always marks the device online)
SetDeviceOnlineAlways(value) == TRUE

\* captureEventFor: the decision read from the delay record
SetDeviceOnline(value) ==
    \/ value = NoRec
    \/ value.id = 0
    \/ value.currentState # Online

\* how captureEventFor's read of the record ended: getAsync rejected, no
\* record, JSON.parse threw, or a decoded record
ReadOutcome(value) ==
    IF ~redisUp THEN "failed"
    ELSE IF value = NoRec THEN "missing"
    ELSE IF ~value.json THEN "undecodable"
    ELSE "decoded"

\* (a read whose failure rejects the call)
HbGetSurfacesFailure(p) ==
    /\ p \in HbIds
    /\ proc[p].pc = "hbGet"
    /\ LET value == store[proc[p].uuid]
           read == ReadOutcome(value) IN
       IF read \in {"failed", "undecodable"}
       THEN Finish(p, FALSE)
       ELSE /\ proc' = [proc EXCEPT ![p].pc = IF SetDeviceOnline(value) THEN "hbWrite" ELSE "get",
                                    ![p].read = read]
            /\ obs' = obs
    /\ UNCHANGED <<poll, peers, sor, store, queue, nextId, cons, sorUp, redisUp, env>>

\* captureEventFor: redis.getAsync(...).then(...).catch(() => true)
HbGet(p) ==
    /\ p \in HbIds
    /\ proc[p].pc = "hbGet"
    /\ LET value == store[proc[p].uuid]
           read == ReadOutcome(value)
           setDeviceOnline == IF read = "decoded" THEN SetDeviceOnline(value) ELSE TRUE IN
       proc' = [proc EXCEPT ![p].pc = IF setDeviceOnline THEN "hbWrite" ELSE "get",
                            ![p].read = read]
    /\ UNCHANGED <<poll, peers, sor, store, queue, nextId, cons, sorUp, redisUp, env, obs>>

\* (a write whose failure rejects the call)
HbWriteSurfacesFailure(p) ==
    /\ p \in HbIds
    /\ proc[p].pc = "hbWrite"
    /\ sor' = UpdateDeviceModel(sor, proc[p].uuid, Online)
    /\ IF sorUp
       THEN /\ proc' = [proc EXCEPT ![p].pc = "get"]
            /\ obs' = [obs EXCEPT ![proc[p].uuid].hbW = @ + 1]
       ELSE /\ proc' = [proc EXCEPT ![p] = FreeProc]
            /\ obs' = [obs EXCEPT ![proc[p].uuid] =
                          [@ EXCEPT !.hbW = @ + 1, !.rejected = @ + 1]]
    /\ UNCHANGED <<poll, peers, store, queue, nextId, cons, sorUp, redisUp, env>>

\* (a write during which the rescheduling has already removed the old message)
HbWriteWhileRescheduling(p) ==
    /\ p \in HbIds
    /\ proc[p].pc = "hbWrite"
    /\ sor' = UpdateDeviceModel(sor, proc[p].uuid, Online)
    /\ proc' = [proc EXCEPT ![p].pc = "get", ![p].wfail = ~sorUp]
    /\ obs' = [obs EXCEPT ![proc[p].uuid].hbW = @ + 1]
    /\ queue' = IF redisUp THEN DeleteMessage(queue, store[proc[p].uuid].id) ELSE queue
    /\ UNCHANGED <<poll, peers, store, nextId, cons, sorUp, redisUp, env>>

\* captureEventFor: this.deviceOnline(uuid).return()
HbWrite(p) ==
    /\ p \in HbIds
    /\ proc[p].pc = "hbWrite"
    /\ sor' = UpdateDeviceModel(sor, proc[p].uuid, Online)
    /\ proc' = [proc EXCEPT ![p].pc = "get", ![p].wfail = ~sorUp]
    /\ obs' = [obs EXCEPT ![proc[p].uuid].hbW = @ + 1]
    /\ UNCHANGED <<poll, peers, store, queue, nextId, cons, sorUp, redisUp, env>>

\* ------------------------------------------ scheduleChangeOfStateForDevice

\* redis.getAsync(key): the id of the message to remove
SchedGet(p) ==
    /\ proc[p].pc = "get"
    /\ IF ~redisUp \/ ~store[proc[p].uuid].json
       THEN \* getAsync is rejected, or JSON.parse(value) throws
            Finish(p, FALSE)
       ELSE /\ LET value == store[proc[p].uuid] IN
               proc' = [proc EXCEPT ![p].pc = IF value = NoRec \/ value.id = 0 THEN "send" ELSE "del",
                                    ![p].old = value.id]
            /\ obs' = obs
    /\ UNCHANGED <<poll, peers, sor, store, queue, nextId, cons, sorUp, redisUp, env>>

\* (a delete whose failure rejects the chain)
SchedDelSurfacesFailure(p) ==
    /\ proc[p].pc = "del"
    /\ IF ~redisUp
       THEN Finish(p, FALSE) /\ queue' = queue
       ELSE /\ queue' = DeleteMessage(queue, proc[p].old)
            /\ proc' = [proc EXCEPT ![p].pc = "send"]
            /\ obs' = obs
    /\ UNCHANGED <<poll, peers, sor, store, nextId, cons, sorUp, redisUp, env>>

\* rsmq.deleteMessageAsync({id}).catch(noop)
SchedDel(p) ==
    /\ proc[p].pc = "del"
    /\ queue' = IF redisUp THEN DeleteMessage(queue, proc[p].old) ELSE queue
    /\ proc' = [proc EXCEPT ![p].pc = "send"]
    /\ UNCHANGED <<poll, peers, sor, store, nextId, cons, sorUp, redisUp, env, obs>>

\* (a failed send that also drops the agent's record)
SchedSendFailureDropsRecord(p) ==
    /\ proc[p].pc = "send"
    /\ IF ~redisUp
       THEN /\ Finish(p, FALSE)
            /\ store' = [store EXCEPT ![proc[p].uuid] = NoRec]
            /\ UNCHANGED <<poll, queue, nextId>>
       ELSE /\ queue' = SendMessage(queue, nextId, proc[p].uuid, proc[p].nxt, proc[p].delay)
            /\ nextId' = nextId + 1
            /\ proc' = [proc EXCEPT ![p].pc = "set", ![p].new = nextId]
            /\ obs' = obs
            /\ store' = store
    /\ UNCHANGED <<poll, peers, sor, cons, sorUp, redisUp, env>>

\* rsmq.sendMessageAsync({message: {uuid, nextState}, delay})
SchedSend(p) ==
    /\ proc[p].pc = "send"
    /\ IF ~redisUp
       THEN Finish(p, FALSE) /\ UNCHANGED <<poll, peers, queue, nextId>>
       ELSE /\ queue' = SendMessage(queue, nextId, proc[p].uuid, proc[p].nxt, proc[p].delay)
            /\ nextId' = nextId + 1
            /\ proc' = [proc EXCEPT ![p].pc = "set", ![p].new = nextId]
            /\ obs' = obs
    /\ UNCHANGED <<poll, peers, sor, store, cons, sorUp, redisUp, env>>

\* (a record that expires together with its message)
NewRecordNoGrace(id, currentState, delay) ==
    [id |-> id, currentState |-> currentState, ttl |-> delay, json |-> TRUE]

\* the record written by redis.setAsync(key, {id, currentState}, 'EX', delay + 5)
NewRecord(id, currentState, delay) ==
    [id |-> id, currentState |-> currentState, ttl |-> delay + RECORD_EXPIRY_EXTRA,
     json |-> TRUE]

SchedSet(p) ==
    /\ proc[p].pc = "set"
    /\ IF ~redisUp
       THEN Finish(p, FALSE) /\ store' = store
       ELSE /\ store' = [store EXCEPT ![proc[p].uuid] =
                            NewRecord(proc[p].new, proc[p].cur, proc[p].delay)]
            /\ Finish(p, TRUE)
    /\ UNCHANGED <<poll, peers, sor, queue, nextId, cons, sorUp, redisUp, env>>

\* ---------------------------------------------------------- constructor

\* (a start-up that begins to consume whatever createQueueAsync answered)
CreateQueueAlwaysConsumes ==
    /\ cons.pc = "create"
    /\ cons' = IdleCons
    /\ env' = [env EXCEPT !.qstate = IF @ = "none" THEN "exists" ELSE @]
    /\ UNCHANGED <<poll, peers, sor, store, queue, nextId, proc, sorUp, redisUp, obs>>

\* rsmq.createQueueAsync({qname}).catch(err => { if (err.name !==
\* 'queueExists') throw err }).then(() => this.consume())
CreateQueue ==
    /\ cons.pc = "create"
    /\ cons' = IF env.qstate = "broken" THEN [IdleCons EXCEPT !.pc = "off"] ELSE IdleCons
    /\ env' = [env EXCEPT !.qstate = IF @ = "none" THEN "exists" ELSE @]
    /\ UNCHANGED <<poll, peers, sor, store, queue, nextId, proc, sorUp, redisUp, obs>>

\* -------------------------------------------------------------- consume

\* (a chain that records the state it is heading for)
OfflineJobRecordsNext(uuid, id) ==
    [FreeProc EXCEPT !.pc = "get", !.uuid = uuid, !.cur = Offline, !.nxt = Offline,
                     !.delay = API_HEARTBEAT_STATE_TIMEOUT_SECONDS, !.src = id]

\* the chain consume starts for a Timeout message, not awaited:
\* scheduleChangeOfStateForDevice(uuid, Timeout, Offline, API_HEARTBEAT_STATE_TIMEOUT_SECONDS)
OfflineJob(uuid, id) ==
    [FreeProc EXCEPT !.pc = "get", !.uuid = uuid, !.cur = Timeout, !.nxt = Offline,
                     !.delay = API_HEARTBEAT_STATE_TIMEOUT_SECONDS, !.src = id]

\* (a switch that applies whatever nextState the message carries)
HandledStateAny(nextState) == TRUE

\* (a switch without the Offline case)
HandledStateTimeoutOnly(nextState) == nextState = Timeout

\* the cases of the switch on nextState that do not throw
HandledState(nextState) == nextState \in {Timeout, Offline}

\* the end of an iteration: .catch(captureException) where something was
\* thrown, then .then(() => this.consume())
EndIteration(reported) == [IdleCons EXCEPT !.reported = reported]

\* rsmq.receiveMessageAsync({vt: RSMQ_READ_TIMEOUT}) hands over a message, which
\* stays in the queue, hidden for vt seconds; JSON.parse and the switch on
\* nextState follow at once.
ConsumeReceive ==
    /\ cons.pc = "recv"
    /\ redisUp
    /\ \E m \in Oldest(queue) :
          /\ queue' = (queue \ {m}) \cup {[m EXCEPT !.vis = RSMQ_READ_TIMEOUT]}
          /\ IF ~m.json \/ ~HandledState(m.nextState)
             THEN \* JSON.parse or the default case throws: the delete is
                  \* skipped, the error is reported
                  /\ proc' = proc
                  /\ cons' = EndIteration(TRUE)
             ELSE IF m.nextState = Timeout
             THEN /\ FreeSlots(JobIds) # {}
                  /\ LET j == LowestFree(JobIds) IN
                     /\ proc' = [proc EXCEPT ![j] = OfflineJob(m.uuid, m.id)]
                     /\ cons' = [cons EXCEPT !.pc = "write", !.id = m.id, !.uuid = m.uuid,
                                             !.nextState = m.nextState, !.job = j]
             ELSE /\ proc' = proc
                  /\ cons' = [cons EXCEPT !.pc = "write", !.id = m.id, !.uuid = m.uuid,
                                          !.nextState = m.nextState, !.job = 0]
    /\ UNCHANGED <<poll, peers, sor, store, nextId, sorUp, redisUp, env, obs>>

\* (a loop that gives up when the receive is rejected)
ConsumeReceiveFailsAndStops ==
    /\ cons.pc = "recv"
    /\ ~redisUp
    /\ cons' = [cons EXCEPT !.pc = "stopped", !.reported = TRUE]
    /\ UNCHANGED <<poll, peers, sor, store, queue, nextId, proc, sorUp, redisUp, env, obs>>

\* receiveMessageAsync is rejected: .catch(captureException(..., 'Error when
\* consuming queue')).then(() => this.consume())
ConsumeReceiveFails ==
    /\ cons.pc = "recv"
    /\ ~redisUp
    /\ cons' = EndIteration(TRUE)
    /\ UNCHANGED <<poll, peers, sor, store, queue, nextId, proc, sorUp, redisUp, env, obs>>

\* no message is visible: return Bluebird.delay(1000); the loop goes on when
\* the second has passed (Tick)
ConsumeEmpty ==
    /\ cons.pc = "recv"
    /\ redisUp
    /\ Oldest(queue) = {}
    /\ cons' = [EndIteration(FALSE) EXCEPT !.pc = "wait"]
    /\ UNCHANGED <<poll, peers, sor, store, queue, nextId, proc, sorUp, redisUp, env, obs>>

\* (a write whose failure is thrown, so that the delete is skipped)
ConsumeWriteThrows ==
    /\ cons.pc = "write"
    /\ sor' = UpdateDeviceModel(sor, cons.uuid, cons.nextState)
    /\ cons' = IF sorUp THEN [cons EXCEPT !.pc = "delete"] ELSE EndIteration(TRUE)
    /\ obs' = [obs EXCEPT ![cons.uuid] =
                  IF cons.nextState = Timeout
                  THEN [@ EXCEPT !.toW = @ + 1, !.sinceTo = 0, !.rescued = FALSE,
                                 !.applied = @ \cup {cons.id}]
                  ELSE [@ EXCEPT !.offW = @ + 1, !.applied = @ \cup {cons.id}]]
    /\ UNCHANGED <<poll, peers, store, queue, nextId, proc, sorUp, redisUp, env>>

\* (a write that is started and not awaited: the loop goes on at once)
ConsumeWriteNotAwaited ==
    /\ cons.pc = "write"
    /\ sor' = UpdateDeviceModel(sor, cons.uuid, cons.nextState)
    /\ cons' = EndIteration(FALSE)
    /\ obs' = [obs EXCEPT ![cons.uuid] =
                  IF cons.nextState = Timeout
                  THEN [@ EXCEPT !.toW = @ + 1, !.sinceTo = 0, !.rescued = FALSE,
                                 !.applied = @ \cup {cons.id}]
                  ELSE [@ EXCEPT !.offW = @ + 1, !.applied = @ \cup {cons.id}]]
    /\ UNCHANGED <<poll, peers, store, queue, nextId, proc, sorUp, redisUp, env>>

\* return this.updateDeviceModel(uuid, nextState): resolves with true, or with
\* false when the PATCH failed (reported there)
ConsumeWrite ==
    /\ cons.pc = "write"
    /\ sor' = UpdateDeviceModel(sor, cons.uuid, cons.nextState)
    /\ cons' = [cons EXCEPT !.pc = "delete", !.result = sorUp]
    /\ obs' = [obs EXCEPT ![cons.uuid] =
                  IF cons.nextState = Timeout
                  THEN [@ EXCEPT !.toW = @ + 1, !.sinceTo = 0, !.rescued = FALSE,
                                 !.applied = @ \cup {cons.id}]
                  ELSE [@ EXCEPT !.offW = @ + 1, !.applied = @ \cup {cons.id}]]
    /\ UNCHANGED <<poll, peers, store, queue, nextId, proc, sorUp, redisUp, env>>

\* (a loop that goes on to the next receive without the delete)
ConsumeDeleteSkipped ==
    /\ cons.pc = "delete"
    /\ IF cons.job = 0 THEN TRUE ELSE proc[cons.job].pc # "get"
    /\ cons' = EndIteration(FALSE)
    /\ UNCHANGED <<poll, peers, sor, store, queue, nextId, proc, sorUp, redisUp, env, obs>>

\* .then(() => rsmq.deleteMessageAsync({id})).catch(captureException); the
\* chain's GET was issued on the same Redis connection before this delete
ConsumeDelete ==
    /\ cons.pc = "delete"
    /\ IF cons.job = 0 THEN TRUE ELSE proc[cons.job].pc # "get"
    /\ queue' = IF redisUp THEN DeleteMessage(queue, cons.id) ELSE queue
    /\ cons' = EndIteration(~redisUp)
    /\ UNCHANGED <<poll, peers, sor, store, nextId, proc, sorUp, redisUp, env, obs>>

\* ------------------------------------------- consume, in other workers

\* (a receive with vt 0: the message stays visible to the other loops)
PeerReceiveNotHidden(w) ==
    /\ peers[w].pc = "recv"
    /\ redisUp
    /\ \E m \in Oldest(queue) :
          /\ queue' = queue
          /\ IF ~m.json \/ ~HandledState(m.nextState)
             THEN /\ proc' = proc
                  /\ peers' = [peers EXCEPT ![w] = EndIteration(TRUE)]
             ELSE IF m.nextState = Timeout
             THEN /\ FreeSlots(JobIds) # {}
                  /\ LET j == LowestFree(JobIds) IN
                     /\ proc' = [proc EXCEPT ![j] = OfflineJob(m.uuid, m.id)]
                     /\ peers' = [peers EXCEPT ![w] =
                                     [@ EXCEPT !.pc = "write", !.id = m.id, !.uuid = m.uuid,
                                               !.nextState = m.nextState, !.job = j]]
             ELSE /\ proc' = proc
                  /\ peers' = [peers EXCEPT ![w] =
                                  [@ EXCEPT !.pc = "write", !.id = m.id, !.uuid = m.uuid,
                                            !.nextState = m.nextState, !.job = 0]]
    /\ UNCHANGED <<poll, sor, store, nextId, cons, sorUp, redisUp, env, obs>>

\* the same loop in worker w: receiveMessageAsync({vt: RSMQ_READ_TIMEOUT}) on
\* the one queue all workers share, then JSON.parse and the switch
PeerReceive(w) ==
    /\ peers[w].pc = "recv"
    /\ redisUp
    /\ \E m \in Oldest(queue) :
          /\ queue' = (queue \ {m}) \cup {[m EXCEPT !.vis = RSMQ_READ_TIMEOUT]}
          /\ IF ~m.json \/ ~HandledState(m.nextState)
             THEN /\ proc' = proc
                  /\ peers' = [peers EXCEPT ![w] = EndIteration(TRUE)]
             ELSE IF m.nextState = Timeout
             THEN /\ FreeSlots(JobIds) # {}
                  /\ LET j == LowestFree(JobIds) IN
                     /\ proc' = [proc EXCEPT ![j] = OfflineJob(m.uuid, m.id)]
                     /\ peers' = [peers EXCEPT ![w] =
                                     [@ EXCEPT !.pc = "write", !.id = m.id, !.uuid = m.uuid,
                                               !.nextState = m.nextState, !.job = j]]
             ELSE /\ proc' = proc
                  /\ peers' = [peers EXCEPT ![w] =
                                  [@ EXCEPT !.pc = "write", !.id = m.id, !.uuid = m.uuid,
                                            !.nextState = m.nextState, !.job = 0]]
    /\ UNCHANGED <<poll, sor, store, nextId, cons, sorUp, redisUp, env, obs>>

\* worker w finds no visible message: Bluebird.delay(1000)
PeerEmpty(w) ==
    /\ peers[w].pc = "recv"
    /\ redisUp
    /\ Oldest(queue) = {}
    /\ peers' = [peers EXCEPT ![w] = [EndIteration(FALSE) EXCEPT !.pc = "wait"]]
    /\ UNCHANGED <<poll, sor, store, queue, nextId, proc, cons, sorUp, redisUp, env, obs>>

\* worker w: return this.updateDeviceModel(uuid, nextState)
PeerWrite(w) ==
    /\ peers[w].pc = "write"
    /\ sor' = UpdateDeviceModel(sor, peers[w].uuid, peers[w].nextState)
    /\ peers' = [peers EXCEPT ![w] = [@ EXCEPT !.pc = "delete", !.result = sorUp]]
    /\ obs' = [obs EXCEPT ![peers[w].uuid] =
                  IF peers[w].nextState = Timeout
                  THEN [@ EXCEPT !.toW = @ + 1, !.sinceTo = 0, !.rescued = FALSE,
                                 !.applied = @ \cup {peers[w].id}]
                  ELSE [@ EXCEPT !.offW = @ + 1, !.applied = @ \cup {peers[w].id}]]
    /\ UNCHANGED <<poll, store, queue, nextId, proc, cons, sorUp, redisUp, env>>

\* worker w: .then(() => rsmq.deleteMessageAsync({id})).catch(captureException)
PeerDelete(w) ==
    /\ peers[w].pc = "delete"
    /\ IF peers[w].job = 0 THEN TRUE ELSE proc[peers[w].job].pc # "get"
    /\ queue' = IF redisUp THEN DeleteMessage(queue, peers[w].id) ELSE queue
    /\ peers' = [peers EXCEPT ![w] = EndIteration(~redisUp)]
    /\ UNCHANGED <<poll, sor, store, nextId, proc, cons, sorUp, redisUp, env, obs>>

\* ----------------------------------------------------------------- time

Quiescent ==
    /\ cons.pc \in {"recv", "wait", "off"}
    /\ \A w \in PeerIds : peers[w].pc \in {"recv", "wait", "off"}
    /\ \A p \in ProcIds : proc[p].pc = "free"

\* an idle loop polls again after Bluebird.delay(1000): while Redis answers, a
\* message is received within a second of becoming visible
ConsumerKeepsUp ==
    (redisUp /\ (cons.pc # "off" \/ \E w \in PeerIds : peers[w].pc # "off"))
        => \A m \in queue : m.vis >= 0

\* (a second in which no record expires or ages)
TickNoExpiry ==
    /\ Quiescent
    /\ ConsumerKeepsUp
    /\ queue' = {[m EXCEPT !.vis = Max(m.vis - 1, 0 - OverdueCap)] : m \in queue}
    /\ obs' = [a \in Agents |->
                  IF a \notin env.agents THEN obs[a]
                  ELSE [obs[a] EXCEPT !.since = Min(@ + 1, AgeCap),
                                      !.sinceTo = Min(@ + 1, AgeCap)]]
    /\ cons' = IF cons.pc = "wait" THEN [cons EXCEPT !.pc = "recv"] ELSE cons
    /\ peers' = [w \in PeerIds |->
                    IF peers[w].pc = "wait" THEN [peers[w] EXCEPT !.pc = "recv"] ELSE peers[w]]
    /\ UNCHANGED <<poll, sor, store, nextId, proc, sorUp, redisUp, env>>

\* one second passes: rsmq delays and visibility timeouts run down, Redis
\* expires the records whose EX time is over
Tick ==
    /\ Quiescent
    /\ ConsumerKeepsUp
    /\ queue' = {[m EXCEPT !.vis = Max(m.vis - 1, 0 - OverdueCap)] : m \in queue}
    /\ store' = [a \in Agents |->
                    IF store[a] = NoRec \/ store[a].ttl = 1 THEN NoRec
                    ELSE [store[a] EXCEPT !.ttl = @ - 1]]
    /\ obs' = [a \in Agents |->
                  IF a \notin env.agents THEN obs[a]
                  ELSE [obs[a] EXCEPT !.since = Min(@ + 1, AgeCap),
                                      !.sinceTo = Min(@ + 1, AgeCap)]]
    /\ cons' = IF cons.pc = "wait" THEN [cons EXCEPT !.pc = "recv"] ELSE cons
    /\ peers' = [w \in PeerIds |->
                    IF peers[w].pc = "wait" THEN [peers[w] EXCEPT !.pc = "recv"] ELSE peers[w]]
    /\ UNCHANGED <<poll, sor, nextId, proc, sorUp, redisUp, env>>

\* --------------------------------------------------------------- outages

RedisFail ==
    /\ redisUp /\ env.faultsLeft > 0
    /\ redisUp' = FALSE /\ env' = [env EXCEPT !.faultsLeft = @ - 1]
    /\ UNCHANGED <<poll, peers, sor, store, queue, nextId, proc, cons, sorUp, obs>>

RedisRecover ==
    /\ ~redisUp
    /\ redisUp' = TRUE
    /\ UNCHANGED <<poll, peers, sor, store, queue, nextId, proc, cons, sorUp, env, obs>>

SorFail ==
    /\ sorUp /\ env.faultsLeft > 0
    /\ sorUp' = FALSE /\ env' = [env EXCEPT !.faultsLeft = @ - 1]
    /\ proc' = [p \in ProcIds |-> [proc[p] EXCEPT !.clean = FALSE]]
    /\ obs' = [a \in Agents |-> [obs[a] EXCEPT !.cleanDone = FALSE]]
    /\ UNCHANGED <<poll, peers, sor, store, queue, nextId, cons, redisUp>>

SorRecover ==
    /\ ~sorUp
    /\ sorUp' = TRUE
    /\ UNCHANGED <<poll, peers, sor, store, queue, nextId, proc, cons, redisUp, env, obs>>

\* the key of an agent's record gets a text that JSON.parse does not accept
\* (it keeps the key's expiry)
CorruptRecord(a) ==
    /\ redisUp /\ env.faultsLeft > 0
    /\ store[a] # NoRec /\ store[a].json
    /\ store' = [store EXCEPT ![a].json = FALSE]
    /\ env' = [env EXCEPT !.faultsLeft = @ - 1]
    /\ UNCHANGED <<poll, peers, sor, queue, nextId, proc, cons, sorUp, redisUp, obs>>

\* the queue "expired" gets a message that scheduleChangeOfStateForDevice did
\* not produce: a payload that is not JSON, or one with an unexpected nextState
ForeignMessage ==
    /\ redisUp /\ env.faultsLeft > 0
    /\ \E m \in {Message(nextId, NoAgent, Unknown, 0, FALSE)}
                \cup {Message(nextId, a, n, 0, TRUE) : a \in env.agents, n \in {Unknown, Online}} :
          queue' = queue \cup {m}
    /\ nextId' = nextId + 1
    /\ env' = [env EXCEPT !.faultsLeft = @ - 1]
    /\ UNCHANGED <<poll, peers, sor, store, proc, cons, sorUp, redisUp, obs>>

\* --------------------------------------------------------- specifications

Next ==
    \/ \E a \in Agents : CaptureEventFor(a)
    \/ \E p \in HbIds : HbGet(p)
    \/ \E p \in HbIds : HbWrite(p)
    \/ \E p \in ProcIds : SchedGet(p)
    \/ \E p \in ProcIds : SchedDel(p)
    \/ \E p \in ProcIds : SchedSend(p)
    \/ \E p \in ProcIds : SchedSet(p)
    \/ ConsumeReceive
    \/ ConsumeEmpty
    \/ ConsumeWrite
    \/ ConsumeDelete
    \/ Tick

\* sequential heartbeats, no outage
Spec == Init /\ [][Next]_vars

\* the system of record may refuse writes for a while
NextSorFault == Next \/ SorFail \/ SorRecover
InitSorFault == InitCommon /\ env = Env(FALSE, MaxHeartbeats - 1, MaxFaults - 1)
SpecSorFault == InitSorFault /\ [][NextSorFault]_vars

\* Redis (delay store and queue) may be unreachable for a while
NextRedisFault == Next \/ RedisFail \/ RedisRecover \/ ConsumeReceiveFails
InitRedisFault == InitCommon /\ env = Env(FALSE, MaxHeartbeats - 1, MaxFaults - 1)
SpecRedisFault == InitRedisFault /\ [][NextRedisFault]_vars

\* heartbeats of one agent may overlap
InitOverlap == InitCommon /\ env = Env(TRUE, MaxHeartbeats - 1, 0)
SpecOverlap == InitOverlap /\ [][Next]_vars

\* overlapping heartbeats; every callback that is ready is eventually run and
\* seconds keep passing
SpecOverlapFair == InitOverlap /\ [][Next]_vars /\ WF_vars(Next)

\* the queue may hold a message the consumer cannot handle (such a message
\* comes back every RSMQ_READ_TIMEOUT seconds, so the run has few of them)
NextForeign == Next \/ ForeignMessage
InitForeign == InitCommon /\ env = Env(FALSE, MaxHeartbeats - 2, MaxFaults \div 2)
SpecForeign == InitForeign /\ [][NextForeign]_vars

\* the consumer loop under everything that can go wrong in an iteration; the
\* event loop runs every callback that is ready, and seconds keep passing
NextLoop == NextRedisFault \/ ForeignMessage
InitLoop == InitCommon /\ env = Env(FALSE, MaxHeartbeats \div 3, MaxFaults \div 2)
SpecLoop == InitLoop /\ [][NextLoop]_vars /\ WF_vars(NextLoop)

\* from the construction of the manager on: the queue is created first
NextStart == Next \/ CreateQueue
InitStart ==
    /\ sor = [a \in Agents |-> Unknown]
    /\ store = [a \in Agents |-> NoRec]
    /\ queue = {}
    /\ nextId = 1
    /\ proc = [p \in ProcIds |-> FreeProc]
    /\ cons = [IdleCons EXCEPT !.pc = "create"]
    /\ sorUp = TRUE
    /\ redisUp = TRUE
    /\ obs = [a \in Agents |-> Obs0]
    /\ peers = [w \in PeerIds |-> [IdleCons EXCEPT !.pc = "off"]]
    /\ poll = PollIdle
    /\ \E q \in {"none", "exists", "broken"} :
          env = [Env(FALSE, MaxHeartbeats - 1, 0) EXCEPT !.qstate = q]
SpecStart == InitStart /\ [][NextStart]_vars

\* the record may be unreadable: Redis outages, or a text that is not JSON
NextCorrupt == NextRedisFault \/ \E a \in Agents : CorruptRecord(a)
InitCorrupt == InitCommon /\ env = Env(FALSE, (MaxHeartbeats + 1) \div 2, MaxFaults \div 2)
SpecCorrupt == InitCorrupt /\ [][NextCorrupt]_vars

\* two devices send heartbeats
InitTwoAgents ==
    InitCommon /\ env = [Env(FALSE, MaxHeartbeats - 1, 0) EXCEPT !.agents = Agents]
SpecTwoAgents == InitTwoAgents /\ [][Next]_vars

\* one getPollIntervalForDevice call, for any device and any config variables
\* of the devices and of their applications
NextPoll == PollDeviceLevel \/ PollAppLevel \/ PollMax
InitPoll ==
    /\ sor = [a \in Agents |-> Unknown]
    /\ store = [a \in Agents |-> NoRec]
    /\ queue = {}
    /\ nextId = 1
    /\ proc = [p \in ProcIds |-> FreeProc]
    /\ cons = [IdleCons EXCEPT !.pc = "off"]
    /\ sorUp = TRUE
    /\ redisUp = TRUE
    /\ obs = [a \in Agents |-> Obs0]
    /\ peers = [w \in PeerIds |-> [IdleCons EXCEPT !.pc = "off"]]
    /\ env = Env(FALSE, 0, 0)
    /\ \E uuid \in Agents :
       \E dcv \in [Agents -> PollValues \cup {NoValue}] :
       \E acv \in [Agents -> PollValues \cup {NoValue}] :
          poll = [PollIdle EXCEPT !.pc = "device", !.uuid = uuid, !.dcv = dcv, !.acv = acv]
SpecPoll == InitPoll /\ [][NextPoll]_vars

\* several worker processes consume the one queue
NextWorkers ==
    \/ Next
    \/ \E w \in PeerIds : PeerReceive(w)
    \/ \E w \in PeerIds : PeerEmpty(w)
    \/ \E w \in PeerIds : PeerWrite(w)
    \/ \E w \in PeerIds : PeerDelete(w)
InitWorkers ==
    /\ sor = [a \in Agents |-> Unknown]
    /\ store = [a \in Agents |-> NoRec]
    /\ queue = {}
    /\ nextId = 1
    /\ proc = [p \in ProcIds |-> FreeProc]
    /\ cons = IdleCons
    /\ sorUp = TRUE
    /\ redisUp = TRUE
    /\ obs = [a \in Agents |-> Obs0]
    /\ peers = [w \in PeerIds |-> IdleCons]
    /\ poll = PollIdle
    /\ env = Env(FALSE, MaxHeartbeats - 1, 0)
SpecWorkers == InitWorkers /\ [][NextWorkers]_vars

\* ================================================================ claims

\* every heartbeat of a so far arrived less than TimeoutSeconds after the one
\* before it, and the last one less than TimeoutSeconds ago
InWindow(a) == obs[a].gapOK /\ obs[a].started >= 1 /\ obs[a].since < TimeoutSeconds

Idle(a) == InFlight(a) = {} /\ obs[a].done >= 1

\* C2: after the last completed heartbeat of an agent, Timeout is written once,
\* not before T seconds have passed since that heartbeat arrived; Offline is
\* written once, after Timeout and not before the grace delay has passed since;
\* and the persisted state, once Offline, stays Offline until the next heartbeat.
C2_OnlineTimeoutOffline ==
    [][\A a \in Agents :
          (Idle(a) /\ InFlight(a)' = {}) =>
              /\ obs'[a].toW > obs[a].toW =>
                    (obs[a].since >= TimeoutSeconds /\ obs[a].toW = obs[a].toW0)
              /\ obs'[a].offW > obs[a].offW =>
                    /\ obs[a].sinceTo >= API_HEARTBEAT_STATE_TIMEOUT_SECONDS
                    /\ obs[a].offW = obs[a].offW0
                    /\ obs[a].toW = obs[a].toW0 + 1
              /\ sor[a] = Offline => sor'[a] = Offline]_vars

\* C3: a heartbeat that arrives while the persisted state is Timeout and the
\* Offline message has not been received leaves the persisted state Online when
\* it completes, and no Offline is written from its arrival until the next
\* Timeout.
C3_HeartbeatRescuesTimeout ==
    [][\A a \in Agents :
          /\ obs[a].rescued => obs'[a].offW = obs[a].offW
          /\ \A p \in HbIds :
                (proc[p].uuid = a /\ proc[p].resc /\ obs'[a].done > obs[a].done)
                    => sor'[a] = Online]_vars

\* the messages of agent a that were sent and are not deleted
Live(a) == {m \in queue : m.uuid = a}

\* C4: whenever no captureEventFor call, no scheduling chain and no message
\* handling is in progress, the queue holds at most one message of each agent,
\* and it is the message whose id the agent's delay record stores.
C4_OneLiveMessage ==
    Quiescent =>
        \A a \in Agents :
            /\ Cardinality(Live(a)) <= 1
            /\ \A m \in Live(a) : store[a] # NoRec /\ store[a].id = m.id

\* the transitions of the state machine
Edges ==
    {<<Unknown, Online>>, <<Offline, Online>>, <<Timeout, Online>>,
     <<Online, Timeout>>, <<Timeout, Offline>>}

\* C5: every change of an agent's persisted state follows one of the edges
\* Unknown->Online, Offline->Online, Timeout->Online, Online->Timeout,
\* Timeout->Offline.
C5_OnlyStateMachineEdges ==
    [][\A a \in Agents : sor'[a] # sor[a] => <<sor[a], sor'[a]>> \in Edges]_vars

\* C6: when the consumer applies a message it has applied before, the
\* persisted state is left as it was just before.
C6_SecondDeliveryIsNoOp ==
    [][\A a \in Agents :
          (cons.pc = "write" /\ cons'.pc = "delete" /\ cons.uuid = a
            /\ cons.id \in obs[a].applied) => sor'[a] = sor[a]]_vars

\* C7: a captureEventFor call that finds no delay record, or a record whose
\* currentState is not Online, calls updateDeviceModel with Online, once; the
\* first heartbeat of an agent makes exactly one such call.
C7_WritesOnlineWhenNotOnline ==
    [][\A p \in HbIds : \A a \in Agents :
          proc[p].uuid = a =>
              /\ ( /\ proc[p].pc = "hbGet" /\ proc'[p].pc # "hbGet"
                   /\ (store[a] = NoRec \/ store[a].currentState # Online) )
                    => proc'[p].pc = "hbWrite"
              /\ (proc[p].pc = "hbWrite" /\ proc'[p].pc # "hbWrite")
                    => /\ obs'[a].hbW = obs[a].hbW + 1
                       /\ sorUp => sor'[a] = Online
              /\ (obs'[a].started = 1 /\ obs'[a].done = 1) => obs'[a].hbW = 1]_vars

C7_Witness ==
    \E p \in HbIds :
        /\ proc[p].pc = "get"
        /\ store[proc[p].uuid] # NoRec
        /\ store[proc[p].uuid].currentState = Timeout
        /\ obs[proc[p].uuid].hbW = 2
        /\ sor[proc[p].uuid] = Online

\* C8: a captureEventFor call that finds a delay record with a message id and
\* currentState Online goes straight to rescheduling the Timeout: it does not
\* call updateDeviceModel and leaves the persisted state alone.
C8_NoWriteWhenTrackedOnline ==
    [][\A p \in HbIds : \A a \in Agents :
          ( /\ proc[p].uuid = a
            /\ proc[p].pc = "hbGet" /\ proc'[p].pc # "hbGet"
            /\ redisUp
            /\ store[a] # NoRec /\ store[a].id # 0 /\ store[a].currentState = Online )
              => /\ proc'[p].pc = "get"
                 /\ proc'[p].nxt = Timeout
                 /\ proc'[p].delay = TimeoutSeconds
                 /\ sor' = sor
                 /\ obs'[a].hbW = obs[a].hbW]_vars

C8_Witness ==
    \E p \in HbIds :
        /\ proc[p].pc = "get"
        /\ store[proc[p].uuid] # NoRec
        /\ store[proc[p].uuid].currentState = Online
        /\ obs[proc[p].uuid].started = 2
        /\ obs[proc[p].uuid].hbW = 1

\* C9: when the Online write of a captureEventFor call fails, the call goes on
\* to reschedule the Timeout and resolves: no call is rejected, and the call
\* ends having written the delay record for its new Timeout message.
C9_WriteFailureNotSurfaced ==
    [][\A p \in HbIds : \A a \in Agents :
          proc[p].uuid = a =>
              /\ obs'[a].rejected = 0
              /\ (proc[p].pc = "hbWrite" /\ proc'[p].pc # "hbWrite" /\ ~sorUp)
                    => (proc'[p].pc = "get" /\ sor' = sor)
              /\ (proc[p].wfail /\ proc'[p].pc = "free")
                    => /\ obs'[a].done = obs[a].done + 1
                       /\ proc[p].nxt = Timeout
                       /\ store'[a] = NewRecord(proc[p].new, Online, TimeoutSeconds)]_vars

C9_Witness ==
    \E a \in Agents :
        /\ obs[a].done = 1
        /\ obs[a].hbW = 1
        /\ sor[a] = Unknown
        /\ store[a] # NoRec
        /\ store[a].currentState = Online
        /\ \E m \in queue : m.id = store[a].id /\ m.nextState = Timeout

\* C10: an agent that keeps heartbeating within T has persisted state Online
\* once a heartbeat that ran entirely while the system of record accepted
\* writes has completed.
C10_FailedWriteRetried ==
    \A a \in Agents : (InWindow(a) /\ obs[a].cleanDone) => sor[a] = Online

\* C11: no captureEventFor call is rejected, whatever the delay store and the
\* queue do: a failed record read, old-message delete, send or record write is
\* swallowed and the call resolves.
C11_NeverRejects ==
    \A a \in Agents : obs[a].rejected = 0

\* a message the switch of consume has no case for
Unexpected(m) == ~m.json \/ m.nextState \notin {Timeout, Offline}

\* C12: when the consumer takes a visible message whose payload cannot be
\* decoded or whose nextState is neither Timeout nor Offline, the error is
\* reported, the message is gone from the queue afterwards, and the step
\* writes nothing to the system of record and starts no scheduling.
C12_UnexpectedMessageDiscarded ==
    [][\A m \in queue :
          ( /\ Visible(m) /\ Unexpected(m)
            /\ ~\E n \in queue' : n.id = m.id /\ Visible(n) )
              => /\ \A n \in queue' : n.id # m.id
                 /\ cons'.reported
                 /\ sor' = sor
                 /\ proc' = proc]_vars

C14_NeverWritesUnknown ==
    [][\A a \in Agents :
          /\ obs'[a].started = 0 => sor'[a] = Unknown
          /\ sor'[a] # sor[a] => sor'[a] \in {Online, Timeout, Offline}
          /\ cons'.pc = "write" => cons'.nextState \in {Timeout, Offline}
          /\ \A p \in HbIds : proc'[p].pc = "hbWrite" => proc'[p].cur = Online]_vars

C14_Witness ==
    \E a \in Agents :
        /\ sor[a] = Offline
        /\ cons.pc = "recv"
        /\ cons.reported
        /\ \E m \in queue : m.uuid = a /\ m.nextState = Unknown /\ ~Visible(m)

\* C15: with captureEventFor calls of one agent overlapping in any way, a call
\* that completes leaves in the delay record the id of the message it sent,
\* and once heartbeats have stopped the persisted state of an agent that sent
\* any becomes Offline and stays Offline, with none of its messages left in
\* the queue.
C15_ConcurrentHeartbeatsConverge ==
    /\ [][\A p \in HbIds :
             (proc[p].pc = "set" /\ proc'[p].pc = "free")
                 => store'[proc[p].uuid].id = proc[p].new]_vars
    /\ \A a \in Agents :
          <>[](obs[a].started = 0 \/ (sor[a] = Offline /\ Live(a) = {}))

C15_Witness ==
    \E a \in Agents :
        /\ obs[a].overlapped
        /\ obs[a].done = 2
        /\ Quiescent
        /\ sor[a] = Offline
        /\ Live(a) = {}

\* C16: an agent that resumed heartbeating while its persisted state was
\* Timeout or Offline and has sent every later heartbeat less than T after the
\* one before is Online once things have settled: when no call, chain or
\* handling is in progress, the last heartbeat is less than T old and nothing
\* is pending for the agent but the Timeout that heartbeat scheduled, the
\* persisted state is Online.
C16_ResumedAgentOnline ==
    \A a \in Agents :
        ( /\ Quiescent
          /\ obs[a].resumed
          /\ obs[a].since < TimeoutSeconds
          /\ store[a] # NoRec
          /\ store[a].currentState = Online
          /\ \E m \in queue : Live(a) = {m} /\ m.id = store[a].id /\ m.nextState = Timeout )
            => sor[a] = Online

\* C17: after a heartbeat of an agent has completed, and until its Timeout is
\* due, exactly one transition is pending for the agent: the Timeout that
\* heartbeat scheduled, due T after the heartbeat arrived.
C17_OnlyLastTimeoutPending ==
    \A a \in Agents :
        (Quiescent /\ Idle(a) /\ obs[a].since < TimeoutSeconds) =>
            \E m \in queue :
                /\ Live(a) = {m}
                /\ m.nextState = Timeout
                /\ m.vis = TimeoutSeconds - obs[a].since

\* C18: the Offline follow-up of a Timeout message is scheduled only after
\* the consumer has written Timeout for that message, and only a Timeout
\* message starts a scheduling chain: no chain sends its Offline message
\* while the consumer's write for the message that started it is still to
\* come, and handling an Offline message starts none.
C18_WriteThenSchedule ==
    [][/\ \A p \in JobIds :
             (proc[p].pc = "send" /\ proc'[p].pc = "set")
                 => ~(cons.pc = "write" /\ cons.job = p)
       /\ \A p \in JobIds :
             (proc[p].pc = "free" /\ proc'[p].pc # "free")
                 => (cons'.nextState = Timeout /\ proc'[p].nxt = Offline
                     /\ proc'[p].delay = API_HEARTBEAT_STATE_TIMEOUT_SECONDS)]_vars

\* the ids of the messages in q
Ids(q) == {m.id : m \in q}

\* C19: the consumer never deletes a Timeout message whose Offline follow-up
\* could not be scheduled: when its delete removes a Timeout message from the
\* queue, the scheduling chain started for that message has not failed.
C19_NoDeleteWithoutFollowUp ==
    [][\A a \in Agents :
          ( /\ cons.pc = "delete" /\ cons'.pc = "recv"
            /\ cons.uuid = a /\ cons.nextState = Timeout
            /\ cons.id \in Ids(queue) /\ cons.id \notin Ids(queue') )
              => cons.id \notin obs[a].unscheduled]_vars

\* C20: a Timeout or Offline message that was handled is deleted, by its id
\* and nothing else with it, before the loop receives again; and as long as no
\* visibility timeout runs out no message is applied a second time.
C20_HandledMessageDeleted ==
    [][/\ cons.pc = "write" => cons'.pc \in {"write", "delete"}
       /\ (cons.pc = "write" /\ cons'.pc = "delete")
             => cons.id \notin obs[cons.uuid].applied
       /\ (cons.pc = "delete" /\ cons'.pc # "delete")
             => /\ cons'.pc = "recv"
                /\ cons.nextState \in {Timeout, Offline}
                /\ cons.id \in obs[cons.uuid].applied
                /\ queue' = {m \in queue : m.id # cons.id}]_vars

C20_Witness ==
    \E a \in Agents :
        /\ cons.pc = "recv"
        /\ obs[a].toW = 1
        /\ obs[a].offW = 1
        /\ Cardinality(obs[a].applied) = 2
        /\ sor[a] = Offline
        /\ queue = {}

\* C21: when the consumer's write of Timeout or Offline fails, the persisted
\* state is left as it was, the message is deleted all the same and the loop
\* goes on to the next receive; the message is not applied a second time.
C21_FailedWriteNotRetried ==
    [][/\ (cons.pc = "write" /\ cons'.pc # "write" /\ ~sorUp)
             => /\ sor' = sor
                /\ cons'.pc = "delete"
                /\ ~cons'.result
       /\ (cons.pc = "delete" /\ cons'.pc # "delete" /\ ~cons.result)
             => /\ cons'.pc = "recv"
                /\ cons.id \notin Ids(queue')
       /\ (cons.pc = "write" /\ cons'.pc # "write")
             => cons.id \notin obs[cons.uuid].applied]_vars

C21_Witness ==
    \E a \in Agents :
        /\ Quiescent
        /\ obs[a].started = 1
        /\ obs[a].toW = 1
        /\ sor[a] = Online
        /\ \E m \in queue : Live(a) = {m} /\ m.nextState = Offline

\* C22: handling an Offline message writes Offline and schedules nothing: it
\* starts no scheduling chain, sends no message and leaves the delay records
\* alone; and a persisted state of Offline is left only by the Online write
\* of a heartbeat.
C22_OfflineSchedulesNothing ==
    [][/\ ( /\ cons'.nextState = Offline
            /\ \/ (cons.pc = "recv" /\ cons'.pc = "write")
               \/ (cons.pc = "write" /\ cons'.pc = "delete")
               \/ (cons.pc = "delete" /\ cons'.pc = "recv" /\ cons.nextState = Offline) )
             => /\ proc' = proc
                /\ nextId' = nextId
                /\ store' = store
                /\ Ids(queue') \subseteq Ids(queue)
       /\ (cons.pc = "write" /\ cons'.pc = "delete" /\ cons.nextState = Offline /\ sorUp)
             => sor'[cons.uuid] = Offline
       /\ \A a \in Agents :
             (sor[a] = Offline /\ sor'[a] # Offline) => sor'[a] = Online]_vars

\* C23: a scheduling chain tries to delete the pending message exactly when
\* the delay record it read has a message id; whether that delete removes the
\* message, finds none or fails, the chain is not rejected by it and goes on
\* to send the new message, whose id the record write then stores.
C23_OldDeleteBestEffort ==
    [][\A p \in ProcIds :
          /\ (proc[p].pc = "get" /\ proc'[p].pc \notin {"get", "free"})
                => proc'[p].pc = IF store[proc[p].uuid] # NoRec /\ store[proc[p].uuid].id # 0
                                 THEN "del" ELSE "send"
          /\ (proc[p].pc = "del" /\ proc'[p] # proc[p])
                => /\ proc'[p].pc = "send"
                   /\ redisUp => proc[p].old \notin Ids(queue')
                   /\ ~redisUp => queue' = queue
                   /\ obs' = obs
          /\ (proc[p].pc = "send" /\ proc'[p].pc = "set")
                => proc'[p].new \in Ids(queue') \ Ids(queue)
          /\ (proc[p].pc = "set" /\ proc'[p].pc = "free" /\ redisUp)
                => store'[proc[p].uuid].id = proc[p].new]_vars

C23_Witness ==
    \E a \in Agents :
        /\ Quiescent
        /\ obs[a].started = 1
        /\ store[a] # NoRec
        /\ store[a].currentState = Timeout
        /\ \E m, n \in Live(a) :
              /\ m.nextState = Timeout
              /\ n.nextState = Offline /\ n.id = store[a].id

\* C24: a scheduling chain that succeeds sends exactly one message, carrying
\* its agent and nextState and due after its delay, and then replaces the
\* agent's delay record by the id of that message and its currentState, to
\* expire delay + 5 seconds later; it changes nothing else in queue or store.
C24_ScheduleSendsThenRecords ==
    [][\A p \in ProcIds :
          /\ (proc[p].pc = "send" /\ proc'[p].pc = "set")
                => /\ queue' = queue \cup
                          {[id |-> proc'[p].new, uuid |-> proc[p].uuid,
                            nextState |-> proc[p].nxt, vis |-> proc[p].delay,
                            json |-> TRUE]}
                   /\ proc'[p].new \notin Ids(queue)
                   /\ store' = store
          /\ (proc[p].pc = "set" /\ proc'[p].pc = "free")
                => /\ store' = [store EXCEPT ![proc[p].uuid] =
                                  [id |-> proc[p].new, currentState |-> proc[p].cur,
                                   ttl |-> proc[p].delay + 5, json |-> TRUE]]
                   /\ queue' = queue
          /\ proc'[p].pc = "set" => proc[p].pc \in {"send", "set"}
          /\ (proc[p].pc = "set" /\ proc'[p].pc # "set") => proc'[p].pc = "free"]_vars

C24_Witness ==
    \E a \in Agents :
        /\ Quiescent
        /\ store[a] = [id |-> 2, currentState |-> Timeout,
                       ttl |-> API_HEARTBEAT_STATE_TIMEOUT_SECONDS + 5, json |-> TRUE]
        /\ \E m \in queue :
              Live(a) = {m} /\ m.id = 2 /\ m.nextState = Offline
                /\ m.vis = API_HEARTBEAT_STATE_TIMEOUT_SECONDS

\* C25: an agent that has a live message in the queue has a delay record
\* (stated for the moments at which no call, chain or handling is in
\* progress, where the claim's "in every reachable state" asks least).
C25_LiveMessageHasRecord ==
    Quiescent => \A a \in Agents : Live(a) # {} => store[a] # NoRec

\* C29: the consumer loop starts when createQueue succeeds and when it fails
\* with queueExists; when createQueue fails otherwise the loop is not started,
\* then or later.
C29_QueueCreationIdempotent ==
    [][/\ (cons.pc = "create" /\ cons'.pc # "create")
             => cons'.pc = IF env.qstate \in {"none", "exists"} THEN "recv" ELSE "off"
       /\ cons.pc = "off" => cons'.pc = "off"
       /\ cons'.pc \in {"create", "off"} => cons.pc = cons'.pc \/ cons.pc = "create"]_vars

C29_Witness ==
    /\ cons.pc = "off"
    /\ env.qstate = "broken"
    /\ \E m \in queue : m.vis < 0

\* C26: a delay record lives delay + 5 seconds from its write unless it is
\* overwritten: it changes only by a record write or by growing a second
\* older, and is gone when its time is up; a record a heartbeat wrote is
\* exactly as old as that heartbeat.  A heartbeat that finds no record writes
\* Online and goes on to schedule a Timeout, whether or not a consumer runs.
C26_StaleRecordExpires ==
    [][\A a \in Agents :
          /\ store'[a] # store[a]
                => \/ \E p \in ProcIds :
                         /\ proc[p].pc = "set" /\ proc'[p].pc = "free" /\ proc[p].uuid = a
                         /\ store'[a].ttl = proc[p].delay + 5
                   \/ /\ store[a] # NoRec
                      /\ store'[a] = IF store[a].ttl = 1 THEN NoRec
                                     ELSE [store[a] EXCEPT !.ttl = @ - 1]
          /\ ( /\ Quiescent' /\ store'[a] # NoRec /\ store'[a].currentState = Online
               /\ obs'[a].since < AgeCap )
                => store'[a].ttl = TimeoutSeconds + 5 - obs'[a].since
          /\ \A p \in HbIds :
                (proc[p].pc = "hbGet" /\ proc'[p].pc # "hbGet" /\ proc[p].uuid = a
                  /\ store[a] = NoRec)
                    => (proc'[p].pc = "hbWrite" /\ proc'[p].nxt = Timeout)
          /\ \A p \in HbIds :
                (proc[p].pc = "hbWrite" /\ proc'[p].pc # "hbWrite") => proc'[p].pc = "get"]_vars

C26_Witness ==
    \E a \in Agents :
        /\ cons.pc = "off"
        /\ Quiescent
        /\ obs[a].done = 2
        /\ obs[a].hbW = 2
        /\ store[a] # NoRec
        /\ \E m, n \in Live(a) : m.id # n.id /\ n.id = store[a].id /\ m.vis < 0

\* C27: when a receive is rejected, the loop waits before it receives again:
\* the step in which the failed receive is dealt with leaves the loop waiting,
\* not receiving.
C27_FailedReceiveWaits ==
    [][(cons.pc = "recv" /\ ~redisUp /\ cons' # cons) => cons'.pc = "wait"]_vars

\* the messages each consumer loop is handling (received, not yet past its delete)
Holding(c) == IF c.pc \in {"write", "delete"} THEN {c.id} ELSE {}
Loops == {1} \cup PeerIds
LoopOf(w) == IF w = 1 THEN cons ELSE peers[w]
LoopOfNext(w) == IF w = 1 THEN cons' ELSE peers'[w]

\* C28: with several consumer loops on the one queue, a message received by
\* one of them is hidden from the others for RSMQ_READ_TIMEOUT seconds: a loop
\* only ever takes a visible message, which the receive hides for 30 seconds,
\* and no message is being handled by two loops at once.
C28_ReceivedMessageHidden ==
    [][/\ \A v \in Loops, w \in Loops :
              v # w => Holding(LoopOfNext(v)) \cap Holding(LoopOfNext(w)) = {}
       /\ \A w \in Loops :
              (Holding(LoopOf(w)) = {} /\ Holding(LoopOfNext(w)) # {})
                 => \E m \in queue :
                       /\ Holding(LoopOfNext(w)) = {m.id}
                       /\ m.vis <= 0
                       /\ [m EXCEPT !.vis = RSMQ_READ_TIMEOUT] \in queue'
                       /\ \A n \in queue' : n.id = m.id => ~Visible(n)]_vars

\* one loop is handling a message and another loop, polling meanwhile, found
\* the queue empty
C28_Witness ==
    \E v \in Loops, w \in Loops :
        /\ v # w
        /\ Holding(LoopOf(v)) # {}
        /\ LoopOf(w).pc = "wait"
        /\ \E m \in queue : Holding(LoopOf(v)) = {m.id} /\ m.vis = RSMQ_READ_TIMEOUT

\* C30: a consumer loop handles one message at a time: it receives only when
\* it is at the head of an iteration, the write of the received message is
\* followed by the delete of that same message, the next receive comes only
\* after that delete has completed or failed, and every Timeout or Offline
\* write of the process is a step of this one sequence.
C30_OneMessageAtATime ==
    [][peers' = peers =>
         /\ (\E m \in queue : m.vis <= 0 /\ [m EXCEPT !.vis = RSMQ_READ_TIMEOUT] \in queue')
               => cons.pc = "recv"
         /\ (cons'.pc = "write" /\ cons.pc # "write") => cons.pc = "recv"
         /\ (cons.pc = "write" /\ cons' # cons)
               => cons'.pc = "delete" /\ cons'.id = cons.id /\ queue' = queue
         /\ (cons.pc = "delete" /\ cons' # cons)
               => cons'.pc = "recv" /\ sor' = sor
         /\ (\E a \in Agents : sor'[a] # sor[a] /\ sor'[a] \in {Timeout, Offline})
               => cons.pc = "write" /\ cons'.pc = "delete"]_vars

\* the loop is handling a message again whose earlier delete failed
C30_Witness ==
    /\ cons.pc = "write"
    /\ cons.id \in obs[cons.uuid].applied
    /\ cons.reported

\* C31: writers are separated by role: a change of the persisted state to
\* Online is a step of a captureEventFor call for that agent and leaves the
\* consumer loop where it is; a change to Timeout or Offline is the write step
\* of the consumer loop, handling a received message for that agent whose
\* nextState is the value written; nothing writes Unknown.
C31_WritersByRole ==
    [][\A a \in Agents : sor'[a] # sor[a] =>
          /\ sor'[a] # Unknown
          /\ sor'[a] = Online =>
                /\ cons' = cons
                /\ \E p \in HbIds : /\ proc[p].pc = "hbWrite" /\ proc[p].uuid = a
                                     /\ proc'[p].pc = "get"
          /\ sor'[a] \in {Timeout, Offline} =>
                /\ proc' = proc
                /\ cons.pc = "write" /\ cons'.pc = "delete"
                /\ cons.uuid = a /\ cons.nextState = sor'[a]]_vars

\* each of the three values has been written, and an unexpected message with
\* nextState Online has gone through the loop
C31_Witness ==
    \E a \in Agents :
        /\ sor[a] = Offline
        /\ obs[a].hbW > 0 /\ obs[a].toW > 0 /\ obs[a].offW > 0
        /\ \E m \in queue : m.json /\ m.nextState = Online /\ m.vis > 0

\* the nextState of the message a record with this currentState goes with
FollowUp(currentState) == IF currentState = Online THEN Timeout ELSE Offline

\* C32: every delay record has currentState Online or Timeout and a message
\* id; the message it names was sent for the same agent with nextState
\* Timeout (record Online) or Offline (record Timeout), and is in the queue
\* when the record is written; every message sent has nextState Timeout or
\* Offline.
C32_RecordsAndMessagesWellFormed ==
    [][/\ \A m \in queue' : m.json /\ m.nextState \in {Timeout, Offline}
       /\ \A a \in Agents : store'[a] # NoRec =>
             /\ store'[a].currentState \in {Online, Timeout}
             /\ store'[a].id # 0
             /\ \A m \in queue' : m.id = store'[a].id =>
                    m.uuid = a /\ m.nextState = FollowUp(store'[a].currentState)
             /\ store'[a].id # store[a].id => \E m \in queue' : m.id = store'[a].id]_vars

\* a record with currentState Timeout names the pending Offline message, after
\* a record with currentState Online had named a Timeout message
C32_Witness ==
    \E a \in Agents :
        /\ store[a] # NoRec /\ store[a].currentState = Timeout
        /\ obs[a].toW > 0
        /\ \E m \in queue : m.id = store[a].id /\ m.nextState = Offline

\* C33: in a captureEventFor call the Online write comes before the
\* rescheduling: the steps up to and including the write leave the queue and
\* the delay record alone, the rescheduling's GET is entered only from the
\* decision not to write or from the returned write (done or failed), and the
\* delete, the send and the record write come only after that GET.
C33_WriteBeforeReschedule ==
    [][\A p \in HbIds :
          /\ (proc[p].pc \in {"free", "hbGet", "hbWrite"} /\ proc'[p].pc # proc[p].pc)
                => /\ queue' = queue /\ store' = store /\ nextId' = nextId
                   /\ proc'[p].pc \in {"hbGet", "hbWrite", "get"}
          /\ (proc[p].pc = "hbGet" /\ proc'[p].pc = "get")
                => ~SetDeviceOnline(store[proc[p].uuid]) /\ sor' = sor
          /\ (proc[p].pc = "hbWrite" /\ proc'[p].pc # proc[p].pc)
                => /\ proc'[p].pc = "get"
                   /\ sor' = UpdateDeviceModel(sor, proc[p].uuid, Online)
          /\ (proc'[p].pc \in {"del", "send", "set"} /\ proc[p].pc # proc'[p].pc)
                => proc[p].pc \in {"get", "del", "send"}]_vars

\* a call whose Online write failed is about to delete the old message
C33_Witness ==
    \E p \in HbIds :
        /\ proc[p].pc = "del" /\ proc[p].wfail
        /\ \E m \in queue : m.id = proc[p].old

\* C34: when the send of the new message fails, the chain ends there and the
\* agent's delay record stays as it was (id, currentState, expiry), though the
\* message the record names may already have been deleted.
C34_FailedSendKeepsRecord ==
    [][\A p \in ProcIds :
          (proc[p].pc = "send" /\ ~redisUp /\ proc'[p] # proc[p])
             => /\ proc'[p].pc = "free"
                /\ store' = store
                /\ queue' = queue /\ nextId' = nextId]_vars

\* a send has failed after the old message was deleted: the record still names
\* the deleted message
C34_Witness ==
    \E a \in Agents :
        /\ obs[a].failedAt = "send"
        /\ store[a] # NoRec
        /\ \A m \in queue : m.id # store[a].id
        /\ \A p \in ProcIds : proc[p].pc = "free"

\* C35: in captureEventFor a read of the record that fails, or yields a text
\* that cannot be decoded, is treated like a missing record: the call goes on
\* to write Online, and after the write (done or failed) to the rescheduling.
C35_UnreadableRecordAsMissing ==
    [][\A p \in HbIds :
          /\ (proc[p].pc = "hbGet" /\ proc'[p].pc # "hbGet")
                => LET value == store[proc[p].uuid] IN
                   (~redisUp \/ value = NoRec \/ ~value.json)
                      => proc'[p].pc = "hbWrite" /\ proc'[p].uuid = proc[p].uuid
          /\ (proc[p].pc = "hbWrite" /\ proc[p].read # "decoded" /\ proc'[p].pc # "hbWrite")
                => /\ sor' = UpdateDeviceModel(sor, proc[p].uuid, Online)
                   /\ sorUp => sor'[proc[p].uuid] = Online
                   /\ proc'[p].pc = "get"]_vars

\* a call that found an undecodable record has written Online over a Timeout
\* or Offline state and is at its rescheduling
C35_Witness ==
    \E p \in HbIds :
        /\ proc[p].pc = "get" /\ proc[p].read = "undecodable"
        /\ sor[proc[p].uuid] = Online
        /\ obs[proc[p].uuid].toW > 0

MessagesOf(a, q) == {m \in q : m.uuid = a}
\* the agent a step is taken for: that of a captureEventFor call or scheduling
\* chain that moves, or of the message the consumer loop takes or has in hand
ActsFor(a) ==
    \/ \E p \in ProcIds : proc'[p] # proc[p] /\ a \in {proc[p].uuid, proc'[p].uuid}
    \/ cons' # cons /\ a \in {cons.uuid, cons'.uuid}

\* C36: agents are independent: a step of captureEventFor, of a scheduling
\* chain or of the consumer's handling of a message for agent X leaves the
\* persisted state, the delay record and the queue messages of every other
\* agent Y as they are, and whatever changes for Y is done by a step for Y
\* (or is the passage of time).
C36_AgentsIndependent ==
    [][\A x \in Agents, y \in Agents :
          (x # y /\ ActsFor(x) /\ ~ActsFor(y))
             => /\ sor'[y] = sor[y]
                /\ store'[y] = store[y]
                /\ MessagesOf(y, queue') = MessagesOf(y, queue)]_vars

\* one agent has gone Offline while the other is Online with its Timeout pending
C36_Witness ==
    \E x \in Agents, y \in Agents :
        /\ x # y
        /\ sor[x] = Offline /\ obs[x].offW > 0
        /\ sor[y] = Online /\ store[y] # NoRec /\ store[y].currentState = Online
        /\ \E m \in queue : m.uuid = y /\ m.id = store[y].id /\ m.nextState = Timeout

\* the value the call is to use: the device's own variable, else that of its
\* application, else the default
PollIntervalOf(p) ==
    IF p.dcv[p.uuid] # NoValue THEN p.dcv[p.uuid]
    ELSE IF p.acv[p.uuid] # NoValue THEN p.acv[p.uuid]
    ELSE DEFAULT_SUPERVISOR_POLL_INTERVAL

\* C37: getPollIntervalForDevice returns max(v, DEFAULT_SUPERVISOR_POLL_INTERVAL),
\* v being the device-level variable if there is one, otherwise the
\* application-level one if there is one, otherwise the default; the result
\* is never below the default.
C37_PollIntervalOfDevice ==
    poll.pc = "done" =>
        /\ poll.result = Max(PollIntervalOf(poll), DEFAULT_SUPERVISOR_POLL_INTERVAL)
        /\ poll.result >= DEFAULT_SUPERVISOR_POLL_INTERVAL

====
